---- MODULE Spec2Model ----
(***************************************************************************)
(* Model of scripts/utils/generate_dummy_lut.py: one run of main(), from   *)
(* the parsed command line to the process exit.                            *)
(*                                                                         *)
(* Numbers.                                                                *)
(*  - A command-line wavelength is a Python float.  The model takes the    *)
(*    positive ones that are whole numbers of "ticks" of 2^-TickBits nm.   *)
(*  - A float32 (np.float32) is a record [m, e] standing for m * 2^e with  *)
(*    2^23 <= m < 2^24: the 24-bit significand and its binary exponent.    *)
(*    Conversion to float32 (round to nearest, ties to even), float32      *)
(*    division and float32 multiplication are computed bit for bit.        *)
(*  - np.exp, np.cos and the real power x**(-1.6364) have no integer       *)
(*    form.  What depends on them is carried as a magnitude enclosure      *)
(*    [lo, hi, nan]: the value v satisfies 2^lo <= v <= 2^hi, where lo or  *)
(*    hi may be ZeroE (v = 0) or InfE (v = +inf), and nan says that the    *)
(*    value may be NaN.  Every float32 rounding keeps such an enclosure    *)
(*    (powers of two are float32 values and rounding is monotone), and     *)
(*    Clamp32 applies float32's underflow and overflow.                    *)
(***************************************************************************)
EXTENDS Integers, Sequences, FiniteSets, TLC

----------------------------------------------------------------------------
(* Bounds of the model *)

\* a command-line wavelength is a whole number of 2^-TickBits nm
TickBits == 17
\* --num-samples ranges over -1 .. MaxSamples (and the default 212)
MaxSamples == 3

TicksPerNm == 2^TickBits

----------------------------------------------------------------------------
(* np.float32 *)

\* bits of a float32 significand
MantBits == 24
\* exponent of the smallest positive float32 (the subnormal 2^-149)
MinExp32 == -149
\* exponent of the largest float32 binade (max float32 < 2^128)
MaxExp32 == 127

MantMin == 2^(MantBits - 1)
MantMax == 2^MantBits

RECURSIVE BitLen(_)
\* number of bits of the natural number n
BitLen(n) == IF n = 0 THEN 0 ELSE 1 + BitLen(n \div 2)

\* m0 + rem/den (0 <= rem < den) rounded to the nearest integer, ties to even
RoundEven(m0, rem, den) ==
  IF 2 * rem > den \/ (2 * rem = den /\ m0 % 2 = 1) THEN m0 + 1 ELSE m0

\* a rounded significand that reached 2^24 moves to the next binade
Normalize(m, e) ==
  IF m = MantMax THEN [m |-> MantMin, e |-> e + 1] ELSE [m |-> m, e |-> e]

\* .astype(np.float32) of the positive number (A + f/div) ticks, A >= 1,
\* 0 <= f < div
astype_float32(A, f, div) ==
  LET k == BitLen(A) IN
  IF k >= MantBits
  THEN LET sh == k - MantBits
       IN  Normalize(RoundEven(A \div 2^sh, (A % 2^sh) * div + f, 2^sh * div),
                     sh - TickBits)
  ELSE LET sh  == MantBits - k
           num == f * 2^sh
       IN  Normalize(RoundEven(A * 2^sh + num \div div, num % div, div),
                     (-sh) - TickBits)

\* the float32 nearest to a Python float of T ticks (a weak Python scalar
\* meeting a float32 array)
F32(T) == astype_float32(T, 0, 1)

\* x < y, x = y for float32 values (positive, normalised)
F32Less(x, y) == x.e < y.e \/ (x.e = y.e /\ x.m < y.m)
F32Leq(x, y) == x = y \/ F32Less(x, y)

\* x * 2^k: exact for float32 in the normal range
F32Scale(x, k) == [m |-> x.m, e |-> x.e + k]

RECURSIVE LongDiv(_, _, _, _)
\* n more quotient bits of r/d (r < d): <<quotient, remainder>>
LongDiv(q, r, d, n) ==
  IF n = 0 THEN <<q, r>>
  ELSE IF 2 * r >= d THEN LongDiv(2 * q + 1, 2 * r - d, d, n - 1)
       ELSE LongDiv(2 * q, 2 * r, d, n - 1)

\* float32 division x / y, correctly rounded
F32Div(x, y) ==
  LET n  == IF x.m >= y.m THEN MantBits - 1 ELSE MantBits
      qr == LongDiv(x.m \div y.m, x.m % y.m, y.m, n)
  IN  Normalize(RoundEven(qr[1], qr[2], y.m), x.e - y.e - n)

\* float32 multiplication x * y, correctly rounded: the 48-bit product of
\* the significands is formed from 12-bit halves
F32Mul(x, y) ==
  LET H     == 2^(MantBits \div 2)
      a1    == x.m \div H
      a0    == x.m % H
      b1    == y.m \div H
      b0    == y.m % H
      cross == a1 * b0 + a0 * b1
      low   == (cross % H) * H + a0 * b0
      hi    == a1 * b1 + cross \div H + low \div MantMax
      lo    == low % MantMax
  IN  IF hi >= MantMin
      THEN Normalize(RoundEven(hi, lo, MantMax), x.e + y.e + MantBits)
      ELSE Normalize(RoundEven(2 * hi + lo \div MantMin, lo % MantMin, MantMin),
                     x.e + y.e + MantBits - 1)

\* the float32 value x as a number of ticks, when it is a whole number
F32IsTicks(x, T) ==
  IF x.e + TickBits >= 0 THEN x.m * 2^(x.e + TickBits) = T
  ELSE x.m = T * 2^(-(x.e + TickBits))

----------------------------------------------------------------------------
(* np.linspace(start, stop, num, dtype=np.float32) *)

\* element i (1-based) of the grid: y = arange(num) * step + start in float64
\* (taken as exact), the last element set to stop, then cast to float32
linspace_at(start, stop, num, i) ==
  LET div == num - 1
      delta == stop - start
  IN  IF num > 1 /\ i = num THEN F32(stop)
      ELSE IF div > 0
      THEN LET qd == delta \div div
               rd == delta % div
           IN  astype_float32(start + (i - 1) * qd + ((i - 1) * rd) \div div,
                              ((i - 1) * rd) % div, div)
      ELSE F32(start)

\* the grid with endpoint=False: the step is delta / num and stop is left out
linspace_no_endpoint(start, stop, num) ==
  [i \in 1..num |->
     astype_float32(start + (i - 1) * ((stop - start) \div num)
                      + ((i - 1) * ((stop - start) % num)) \div num,
                    ((i - 1) * ((stop - start) % num)) % num, num)]

\* the grid with its bounds exchanged
linspace_swapped(start, stop, num) ==
  [i \in 1..num |-> linspace_at(stop, start, num, i)]

linspace(start, stop, num) == [i \in 1..num |-> linspace_at(start, stop, num, i)]

----------------------------------------------------------------------------
(* Magnitude enclosures: 2^(lo/16) <= v <= 2^(hi/16), in sixteenths of a   *)
(* binade; lo, hi may be ZeroE (v = 0) or InfE (v = +inf)                  *)

ZeroE == -(10^6)
InfE == 10^6

\* floor(1024 * 2^(k/16)), k = 0..16
Pow2Lo == <<1024, 1069, 1116, 1166, 1217, 1271, 1327, 1386, 1448,
            1512, 1579, 1649, 1722, 1798, 1878, 1961, 2048>>
\* ceiling(1024 * 2^(k/16))
Pow2Hi(k) == IF k = 0 \/ k = 16 THEN Pow2Lo[k + 1] ELSE Pow2Lo[k + 1] + 1

Max(S) == CHOOSE x \in S : \A y \in S : y <= x
Min(S) == CHOOSE x \in S : \A y \in S : x <= y

Mag(lo, hi) == [lo |-> lo, hi |-> hi, nan |-> FALSE]

RECURSIVE Ilog2(_, _)
\* floor(log2(a/b)) for positive integers a, b
Ilog2(a, b) ==
  IF a >= b THEN (IF a >= 2 * b THEN 1 + Ilog2(a, 2 * b) ELSE 0)
  ELSE Ilog2(2 * a, b) - 1

\* a lower and an upper bound of 16 * log2(a/b)
Log16Lo(a, b) ==
  LET ip == Ilog2(a, b)
      a1 == IF ip < 0 THEN a * 2^(-ip) ELSE a
      b1 == IF ip > 0 THEN b * 2^ip ELSE b
  IN  16 * ip + Max({k \in 0..15 : Pow2Hi(k) * b1 <= 1024 * a1})
Log16Hi(a, b) ==
  LET ip == Ilog2(a, b)
      a1 == IF ip < 0 THEN a * 2^(-ip) ELSE a
      b1 == IF ip > 0 THEN b * 2^ip ELSE b
  IN  16 * ip + Min({k \in 0..16 : 1024 * a1 <= Pow2Lo[k + 1] * b1})

\* floor and ceiling of s * 2^(a/16) for a natural number s <= 10^6
LinLo(s, a) ==
  LET q == a \div 16
      t == s * Pow2Lo[(a % 16) + 1]
  IN  IF q >= 0 THEN (t \div 1024) * 2^q
      ELSE IF q < -20 THEN 0 ELSE t \div (1024 * 2^(-q))
LinHi(s, a) ==
  LET q == a \div 16
      t == s * Pow2Hi(a % 16)
  IN  IF q >= 0 THEN ((t + 1023) \div 1024) * 2^q
      ELSE IF q < -20 THEN 1 ELSE (t + 1024 * 2^(-q) - 1) \div (1024 * 2^(-q))

\* the enclosure of a float32 value
MagOfF32(x) ==
  LET top == x.m \div 2^(MantBits - 11)
  IN  Mag(16 * (x.e + MantBits - 1) + Max({k \in 0..15 : Pow2Hi(k) <= top}),
          16 * (x.e + MantBits - 1) + Min({k \in 0..16 : top + 1 <= Pow2Lo[k + 1]}))

\* float32 underflow (at most 2^-150 rounds to 0) and overflow (2^128 is
\* inf).  The roundings met on the way move a value by a few 2^-24 of
\* itself, far less than a sixteenth of a binade: a bound within one
\* sixteenth of a threshold counts as possibly beyond it.
Clamp32(a) ==
  [lo  |-> IF a.lo <= 16 * (MinExp32 - 1) + 1 THEN ZeroE
           ELSE IF a.lo >= 16 * (MaxExp32 + 1) + 1 THEN InfE ELSE a.lo,
   hi  |-> IF a.hi <= 16 * (MinExp32 - 1) - 1 THEN ZeroE
           ELSE IF a.hi >= 16 * (MaxExp32 + 1) - 1 THEN InfE ELSE a.hi,
   nan |-> a.nan]

NegE(x) == IF x = ZeroE THEN InfE ELSE IF x = InfE THEN ZeroE ELSE -x

\* 1 / a (1/0 = inf, 1/inf = 0)
MagInv(a) == [lo |-> NegE(a.hi), hi |-> NegE(a.lo), nan |-> a.nan]

\* a * b (0 * inf = NaN)
MagTimes(a, b) ==
  [lo  |-> IF a.lo = InfE \/ b.lo = InfE THEN InfE
           ELSE IF a.lo = ZeroE \/ b.lo = ZeroE THEN ZeroE
           ELSE a.lo + b.lo,
   hi  |-> IF a.hi = ZeroE \/ b.hi = ZeroE THEN ZeroE
           ELSE IF a.hi = InfE \/ b.hi = InfE THEN InfE
           ELSE a.hi + b.hi,
   nan |-> a.nan \/ b.nan \/ (a.lo = ZeroE /\ b.hi = InfE)
                 \/ (b.lo = ZeroE /\ a.hi = InfE)]

\* a * b as float32
MagMul(a, b) == Clamp32(MagTimes(a, b))

\* a / b as float32 (x/0 = inf, inf/inf = 0/0 = NaN)
MagDiv(a, b) == MagMul(a, MagInv(b))

\* a ** 5 as float32
MagPow5(a) ==
  Clamp32([lo  |-> IF a.lo = ZeroE \/ a.lo = InfE THEN a.lo ELSE 5 * a.lo,
           hi  |-> IF a.hi = ZeroE \/ a.hi = InfE THEN a.hi ELSE 5 * a.hi,
           nan |-> a.nan])

\* 16 * log2(e) = 23.0831..., in thousandths
Log2e16Lo == 23083
Log2e16Hi == 23084

\* np.exp(x) for x >= 0: exp(x) = 2^(x * log2 e), x taken in hundredths and
\* the result widened by a sixteenth each way.  From x = 2^7 on, exp(x) is
\* beyond 2^184: more than float32 holds, and its reciprocal is less than
\* float32 holds.
np_exp(x) ==
  [lo  |-> IF x.lo = ZeroE THEN 0
           ELSE IF x.lo >= 16 * 7 THEN InfE
           ELSE Max({0, (LinLo(100, x.lo) * Log2e16Lo) \div 10^5 - 1}),
   hi  |-> IF x.hi = ZeroE THEN 0
           ELSE IF x.hi >= 16 * 7 THEN InfE
           ELSE (LinHi(100, x.hi) * Log2e16Hi + 10^5 - 1) \div 10^5 + 1,
   nan |-> x.nan]

\* np.exp(x) - 1.0 for x >= 0: x <= e^x - 1 <= e^x, and e^x / 2 <= e^x - 1
\* once e^x >= 2; below 2^-24 the float32 e^x may round to 1.0
np_expm1(x) ==
  LET ex == Clamp32(np_exp(x))
  IN  [lo  |-> IF ex.lo = InfE THEN InfE
               ELSE IF x.lo <= 16 * (-MantBits) THEN ZeroE
               ELSE IF ex.lo >= 16 /\ ex.lo - 16 > x.lo THEN ex.lo - 16
               ELSE x.lo,
       hi  |-> ex.hi,
       nan |-> x.nan]

----------------------------------------------------------------------------
(* The three spectra *)

\* constants of cie_d65_spectrum as enclosures (16 * log2 of each)
\*   1e-9                  -478.36
NANO == Mag(-479, -478)
\*   2.0 * h * c**2 = 1.19104e-16      -846.38
TWO_H_C2 == Mag(-847, -846)
\*   h * c = 1.98645e-25               -1312.93
H_C == Mag(-1313, -1312)
\*   k = 1.380649e-23                  -1215.02
k == Mag(-1216, -1215)
\*   T = 6504.0                        202.67
T == Mag(202, 203)
\*   solar_solid_angle = 6.8e-5        -221.51
solar_solid_angle == Mag(-222, -221)
\*   the empirical factor 1.5          9.36
EMPIRICAL == Mag(9, 10)

\* the spectrum with the wavelength left in nanometres
cie_d65_parts_nm(w) ==
  LET lambda_m       == MagOfF32(w)
      numerator      == MagDiv(TWO_H_C2, MagPow5(lambda_m))
      x              == MagDiv(H_C, MagMul(MagMul(lambda_m, k), T))
      denominator    == np_expm1(x)
      radiance_per_m == MagDiv(numerator, denominator)
      irradiance     == MagMul(MagMul(radiance_per_m, solar_solid_angle), NANO)
  IN  [denominator |-> denominator, irradiance |-> MagMul(irradiance, EMPIRICAL)]

\* cie_d65_spectrum(wavelengths_nm) at one float32 wavelength w: the record
\* of the Planck denominator and of the returned irradiance
cie_d65_parts(w) ==
  LET lambda_m       == MagMul(MagOfF32(w), NANO)
      numerator      == MagDiv(TWO_H_C2, MagPow5(lambda_m))
      x              == MagDiv(H_C, MagMul(MagMul(lambda_m, k), T))
      denominator    == np_expm1(x)
      radiance_per_m == MagDiv(numerator, denominator)
      irradiance     == MagMul(MagMul(radiance_per_m, solar_solid_angle), NANO)
  IN  [denominator |-> denominator, irradiance |-> MagMul(irradiance, EMPIRICAL)]

cie_d65_spectrum(w) == cie_d65_parts(w).irradiance

\* lambda_ref = 550.0 nm
lambda_ref == 550
\* the float32 nearest to the decimal n/d
F32Dec(n, d) == F32Div(F32(n * TicksPerNm), F32(d * TicksPerNm))
\* base_radiance = 0.1 and tau_0_ref = 0.1
base_radiance == F32Dec(1, 10)
tau_0_ref == F32Dec(1, 10)

\* x ** 4 on float32: the fourth power by two rounded squarings.  It is the
\* exact fourth power whenever that is a float32, and it is within one unit
\* in the last place of the library's powf otherwise.
F32Pow4(x) == F32Mul(F32Mul(x, x), F32Mul(x, x))

\* the factor with the exponent 2 in place of 4
rayleigh_factor_sq(w) ==
  LET q == F32Div(F32(lambda_ref * TicksPerNm), w) IN F32Mul(q, q)

\* (lambda_ref / lambda_nm) ** 4
rayleigh_factor(w) == F32Pow4(F32Div(F32(lambda_ref * TicksPerNm), w))

\* rayleigh_sky_radiance(wavelengths_nm) at one float32 wavelength
rayleigh_sky_radiance(w) == F32Mul(base_radiance, rayleigh_factor(w))

\* tau_0 = tau_0_ref * (lambda_ref / lambda_nm) ** 4
tau_0(w) == F32Mul(tau_0_ref, rayleigh_factor(w))

\* a zenith angle is a whole number of 10^-5 degrees
ZenithUnit == 10^5
\* the Kasten-Young constants 96.07995 (in 10^-5), 1.6364 (in 10^-4)
KY_ANGLE == 9607995
KY_POWER == 16364
\*   0.50572        16 * log2 = -15.74
KY_FACTOR == Mag(-16, -15)

\* nothing known: any value, NaN included
Unknown == [lo |-> ZeroE, hi |-> InfE, nan |-> TRUE]

\* 10^4 * cos(d degrees) for a whole d by Bhaskara's formula, which is
\* within 0.0017 of the cosine for 0 <= d <= 90
CosE4(d) == (10000 * (32400 - 4 * d * d)) \div (32400 + d * d)
CosErr == 17

\* air_mass = 1.0 / (np.cos(zenith_rad)
\*                   + 0.50572 * (96.07995 - zenith_angle_deg)**(-1.6364))
\* for 0 <= zenith < 90 degrees; the cosine decreases on [d, d + 1] and is
\* not negative there
air_mass(Z) ==
  IF Z < 0 \/ Z >= 90 * ZenithUnit THEN Unknown
  ELSE LET d      == Z \div ZenithUnit
           cos_lo == Max({0, CosE4(d + 1) - CosErr})
           cos_hi == Min({10000, CosE4(d) + CosErr + 1})
           base   == (KY_ANGLE - Z) \div 100
           l_lo   == Log16Lo(base, 1000)
           l_hi   == Log16Hi(base + 1, 1000)
           term   == MagTimes(KY_FACTOR,
                              Mag(-((KY_POWER * l_hi + 9999) \div 10000),
                                  -((KY_POWER * l_lo) \div 10000)))
           D_lo   == cos_lo + LinLo(10000, term.lo)
           D_hi   == cos_hi + LinHi(10000, term.hi)
       IN  IF D_lo > 0
           THEN Mag(Log16Lo(10000, D_hi), Log16Hi(10000, D_lo))
           ELSE Unknown

\* the exponential without the minus sign
np_exp_pos(y) == np_exp(y)

\* np.exp(-y) for y >= 0
np_exp_neg(y) == MagInv(np_exp(y))

\* atmospheric_transmittance(wavelengths_nm, zenith_angle_deg) at one
\* float32 wavelength: exp(-tau_0 * air_mass), then .astype(np.float32)
atmospheric_transmittance(w, Z) ==
  Clamp32(np_exp_neg(MagTimes(MagOfF32(tau_0(w)), air_mass(Z))))

----------------------------------------------------------------------------
(* One run of main() *)

VARIABLES
  lambda_min,        \* args.lambda_min, in ticks
  lambda_max,        \* args.lambda_max, in ticks
  num_samples,       \* args.num_samples
  zenith_angle,      \* args.zenith, in 10^-5 degrees
  pc,                \* the statement the run is at
  wavelengths,       \* the four arrays of generate_dummy_lut
  solar_irradiance,
  sky_radiance,
  transmittance,
  dir_exists,        \* the parent directory of the output path exists
  file,              \* what is stored at the output path
  file0,             \* what was stored there when the run began
  handle,            \* the h5py.File object f: "none", "open" or "closed"
  exit_code,         \* -1 while the run goes on, then the exit status
  error,             \* the exception that ended the run, or "none"
  events             \* the computations, file-system calls and reports
                     \* completed so far, in order

vars == <<lambda_min, lambda_max, num_samples, zenith_angle, pc, wavelengths,
          solar_irradiance, sky_radiance, transmittance, dir_exists, file,
          file0, handle, exit_code, error, events>>

args == <<lambda_min, lambda_max, num_samples, zenith_angle>>
arrays == <<wavelengths, solar_irradiance, sky_radiance, transmittance>>

\* defaults of the command line
DefaultLambdaMin == 380
DefaultLambdaMax == 2500
DefaultNumSamples == 212
DefaultZenith == 30

\* wavelengths given on the command line: 10 nm, 380 nm, 380 nm plus one
\* tick (not a float32), 550, 1100, 2047 nm and the float32 next to it
\* (2^-13 nm further), 2500 nm
Lambdas ==
  {10 * TicksPerNm, DefaultLambdaMin * TicksPerNm,
   DefaultLambdaMin * TicksPerNm + 1, lambda_ref * TicksPerNm,
   2 * lambda_ref * TicksPerNm, 2047 * TicksPerNm,
   2047 * TicksPerNm + TicksPerNm \div 2^13, DefaultLambdaMax * TicksPerNm}
Samples == -1 .. MaxSamples
\* zenith angles: 0, 30, 89 degrees and 96.07995 degrees
Zeniths == {0, DefaultZenith * ZenithUnit, 89 * ZenithUnit, KY_ANGLE}

DefaultArgs == <<DefaultLambdaMin * TicksPerNm, DefaultLambdaMax * TicksPerNm,
                 DefaultNumSamples, DefaultZenith * ZenithUnit>>

\* the command lines of the model
ArgSets == (Lambdas \X Lambdas \X Samples \X Zeniths) \cup {DefaultArgs}

\* what the output path holds: nothing, a file of some earlier content, or
\* the container under construction
Absent == [state |-> "absent", datasets |-> <<>>, metadata |-> {}]
Old == [state |-> "old", datasets |-> <<>>, metadata |-> {}]
Truncated == [state |-> "lut", datasets |-> <<>>, metadata |-> {}]

\* the program with the file opened before the arrays are computed
StagesOpenFirst ==
  <<"mkdir", "open", "linspace", "solar", "sky", "transmittance",
    "write_wavelengths", "write_solar_irradiance", "write_sky_radiance",
    "write_transmittance", "write_metadata", "close", "summary", "exited">>

\* the program without the create_dataset of /sky_radiance
StagesNoSky ==
  <<"mkdir", "linspace", "solar", "sky", "transmittance", "open",
    "write_wavelengths", "write_solar_irradiance", "write_transmittance",
    "write_metadata", "close", "summary", "exited">>

\* the statements of main() and generate_dummy_lut() in program order
Stages == <<"mkdir", "linspace", "solar", "sky", "transmittance", "open",
            "write_wavelengths", "write_solar_irradiance",
            "write_sky_radiance", "write_transmittance", "write_metadata",
            "close", "summary", "exited">>

\* the statement after p
After(p) == Stages[(CHOOSE i \in 1..Len(Stages) : Stages[i] = p) + 1]

\* a block that leaves the file as it is
ExitWithLeak(h) == h

\* leaving the with-block, normally or by an exception, closes the file
ExitWith(h) == "closed"

\* the attributes written to the metadata group
MetadataAttrs ==
  {"model", "solar_zenith_deg", "visibility_km", "description", "generator"}

Init ==
  /\ \E a \in ArgSets :
       /\ lambda_min = a[1] /\ lambda_max = a[2]
       /\ num_samples = a[3] /\ zenith_angle = a[4]
  /\ pc = "mkdir"
  /\ wavelengths = <<>> /\ solar_irradiance = <<>>
  /\ sky_radiance = <<>> /\ transmittance = <<>>
  /\ dir_exists \in BOOLEAN
  /\ file0 \in (IF dir_exists THEN {Absent, Old} ELSE {Absent})
  /\ file = file0
  /\ handle = "none"
  /\ exit_code = -1
  /\ error = "none"
  /\ events = <<>>

\* an uncaught exception: a with-block in progress closes the file, the
\* traceback is printed and the interpreter exits with status 1
Raise(exc) ==
  /\ pc' = "exited"
  /\ exit_code' = 1
  /\ error' = exc
  /\ handle' = IF handle = "open" THEN ExitWith(handle) ELSE handle
  /\ events' = IF handle = "open" /\ ExitWith(handle) = "closed"
               THEN Append(events, "close") ELSE events

\* output_path.parent.mkdir(parents=True, exist_ok=True)
Mkdir ==
  /\ pc = "mkdir"
  /\ dir_exists' = TRUE
  /\ events' = Append(events, "mkdir")
  /\ pc' = After(pc)
  /\ UNCHANGED <<args, arrays, file, file0, handle, exit_code, error>>

\* ... which the file system may refuse (OSError)
MkdirFails ==
  /\ pc = "mkdir"
  /\ Raise("OSError")
  /\ UNCHANGED <<args, arrays, dir_exists, file, file0>>

\* wavelengths = np.linspace(lambda_min, lambda_max, num_samples,
\*                           dtype=np.float32)
\* np.linspace raises ValueError for a negative num
Linspace ==
  /\ pc = "linspace"
  /\ IF num_samples < 0
     THEN /\ Raise("ValueError")
          /\ UNCHANGED wavelengths
     ELSE /\ wavelengths' = linspace(lambda_min, lambda_max, num_samples)
          /\ events' = Append(events, "linspace")
          /\ pc' = After(pc)
          /\ UNCHANGED <<handle, exit_code, error>>
  /\ UNCHANGED <<args, solar_irradiance, sky_radiance, transmittance,
                 dir_exists, file, file0>>

\* solar_irradiance = cie_d65_spectrum(wavelengths).astype(np.float32)
Solar ==
  /\ pc = "solar"
  /\ solar_irradiance' =
       [i \in 1..Len(wavelengths) |-> cie_d65_spectrum(wavelengths[i])]
  /\ events' = Append(events, "solar")
  /\ pc' = After(pc)
  /\ UNCHANGED <<args, wavelengths, sky_radiance, transmittance, dir_exists,
                 file, file0, handle, exit_code, error>>

\* sky_radiance = rayleigh_sky_radiance(wavelengths).astype(np.float32)
Sky ==
  /\ pc = "sky"
  /\ sky_radiance' =
       [i \in 1..Len(wavelengths) |-> rayleigh_sky_radiance(wavelengths[i])]
  /\ events' = Append(events, "sky")
  /\ pc' = After(pc)
  /\ UNCHANGED <<args, wavelengths, solar_irradiance, transmittance,
                 dir_exists, file, file0, handle, exit_code, error>>

\* transmittance = atmospheric_transmittance(wavelengths, zenith_angle)
\*                   .astype(np.float32)
\* the Python float power 0.0 ** (-1.6364) raises ZeroDivisionError
Transmittance ==
  /\ pc = "transmittance"
  /\ IF KY_ANGLE - zenith_angle = 0
     THEN /\ Raise("ZeroDivisionError")
          /\ UNCHANGED transmittance
     ELSE /\ transmittance' =
               [i \in 1..Len(wavelengths) |->
                  atmospheric_transmittance(wavelengths[i], zenith_angle)]
          /\ events' = Append(events, "transmittance")
          /\ pc' = After(pc)
          /\ UNCHANGED <<handle, exit_code, error>>
  /\ UNCHANGED <<args, wavelengths, solar_irradiance, sky_radiance,
                 dir_exists, file, file0>>

\* with h5py.File(output_path, 'w') as f: mode 'w' creates the file or
\* truncates the one that is there
OpenFile ==
  /\ pc = "open"
  /\ dir_exists
  /\ file' = Truncated
  /\ handle' = "open"
  /\ events' = Append(events, "open")
  /\ pc' = After(pc)
  /\ UNCHANGED <<args, arrays, dir_exists, file0, exit_code, error>>

\* ... which fails with OSError when the file cannot be created
OpenFails ==
  /\ pc = "open"
  /\ Raise("OSError")
  /\ UNCHANGED <<args, arrays, dir_exists, file, file0>>

\* the dataset that statement p writes
DatasetOf(p) ==
  CASE p = "write_wavelengths" -> [name |-> "wavelengths", data |-> wavelengths]
    [] p = "write_solar_irradiance" ->
         [name |-> "solar_irradiance", data |-> solar_irradiance]
    [] p = "write_sky_radiance" -> [name |-> "sky_radiance", data |-> sky_radiance]
    [] p = "write_transmittance" ->
         [name |-> "transmittance", data |-> transmittance]

WriteStages == {"write_wavelengths", "write_solar_irradiance",
                "write_sky_radiance", "write_transmittance"}

\* f.create_dataset('/<name>', data=<array>)
WriteDataset ==
  /\ pc \in WriteStages
  /\ handle = "open"
  /\ file' = [file EXCEPT !.datasets = Append(@, DatasetOf(pc))]
  /\ pc' = After(pc)
  /\ UNCHANGED <<args, arrays, dir_exists, file0, handle, exit_code, error,
                 events>>

\* meta_group = f.create_group('/metadata') and its five attributes
WriteMetadata ==
  /\ pc = "write_metadata"
  /\ handle = "open"
  /\ file' = [file EXCEPT !.metadata = MetadataAttrs]
  /\ pc' = After(pc)
  /\ UNCHANGED <<args, arrays, dir_exists, file0, handle, exit_code, error,
                 events>>

\* a write inside the with-block fails (OSError): the block is left, the
\* file closed with what it holds so far
WriteFails ==
  /\ pc \in WriteStages \cup {"write_metadata"}
  /\ Raise("OSError")
  /\ UNCHANGED <<args, arrays, dir_exists, file, file0>>

\* the end of the with-block
CloseFile ==
  /\ pc = "close"
  /\ handle' = ExitWith(handle)
  /\ events' = IF ExitWith(handle) = "closed" THEN Append(events, "close")
               ELSE events
  /\ pc' = After(pc)
  /\ UNCHANGED <<args, arrays, dir_exists, file, file0, exit_code, error>>

\* the report of the ranges: .min() of an empty array raises ValueError;
\* otherwise "Done!" and main() returns, the exit status is 0
Summary ==
  /\ pc = "summary"
  /\ IF Len(solar_irradiance) = 0
     THEN /\ Raise("ValueError")
     ELSE /\ events' = Append(events, "summary")
          /\ exit_code' = 0
          /\ pc' = After(pc)
          /\ UNCHANGED <<handle, error>>
  /\ UNCHANGED <<args, arrays, dir_exists, file, file0>>

Next ==
  \/ Mkdir \/ MkdirFails \/ Linspace \/ Solar \/ Sky \/ Transmittance
  \/ OpenFile \/ OpenFails \/ WriteDataset \/ WriteMetadata \/ WriteFails
  \/ CloseFile \/ Summary

Spec == Init /\ [][Next]_vars

----------------------------------------------------------------------------
(* Properties of a run *)

\* step e has been completed
Done(e) == \E i \in 1..Len(events) : events[i] = e
\* how often step e has been completed
Count(e) == Cardinality({i \in 1..Len(events) : events[i] = e})
\* every completion of b comes after a completion of a
Before(a, b) ==
  \A j \in 1..Len(events) :
    events[j] = b => \E i \in 1..(j - 1) : events[i] = a

\* 0 < lambda_min < lambda_max
ValidBounds == 0 < lambda_min /\ lambda_min < lambda_max

DatasetNames == {"wavelengths", "solar_irradiance", "sky_radiance",
                 "transmittance"}

\* the file holds exactly the four datasets, each of n elements
HoldsLut(f, n) ==
  /\ f.state = "lut"
  /\ Len(f.datasets) = Cardinality(DatasetNames)
  /\ {f.datasets[i].name : i \in 1..Len(f.datasets)} = DatasetNames
  /\ \A i \in 1..Len(f.datasets) : Len(f.datasets[i].data) = n

\* the stored array of a name
Stored(f, name) ==
  (CHOOSE d \in {f.datasets[i] : i \in 1..Len(f.datasets)} : d.name = name).data

\* the run ended by an exception of the numeric computation: np.linspace's
\* ValueError or the ZeroDivisionError of the air-mass power
ComputationError ==
  error = "ZeroDivisionError" \/ (error = "ValueError" /\ ~Done("linspace"))

\* C2 (as stated): a run with lambda_min <= 0 or lambda_min >= lambda_max is
\* rejected before any spectral computation and before any file is created:
\* it computes nothing, leaves the output file as it was and exits non-zero.
C2_BoundsRejected ==
  ~ValidBounds =>
    /\ ~Done("linspace") /\ ~Done("solar") /\ ~Done("open")
    /\ file = file0
    /\ pc = "exited" => exit_code # 0

\* C4: after a run that exits with status 0 the output file is a container
\* holding exactly the four datasets wavelengths, solar_irradiance,
\* sky_radiance and transmittance, each an array of num_samples elements,
\* and these are the arrays the run computed.
C4_FourDatasets ==
  exit_code = 0 =>
    /\ HoldsLut(file, num_samples)
    /\ \A i \in 1..Len(file.datasets) :
         file.datasets[i].data =
           (CASE file.datasets[i].name = "wavelengths" -> wavelengths
              [] file.datasets[i].name = "solar_irradiance" -> solar_irradiance
              [] file.datasets[i].name = "sky_radiance" -> sky_radiance
              [] file.datasets[i].name = "transmittance" -> transmittance)

\* a run of MaxSamples samples has exited with status 0
C4_Reached == exit_code = 0 /\ num_samples = MaxSamples /\ file0 = Old

\* C8 (as stated): the exit status is 0 exactly when the run ended without
\* an exception, and a run with num_samples < 1 exits non-zero without
\* creating or overwriting the output file.
C8_ExitStatus ==
  /\ pc = "exited" => (exit_code = 0 <=> error = "none")
  /\ num_samples < 1 => file = file0 /\ (pc = "exited" => exit_code # 0)

\* C9: the output file is opened at most once and only after the mkdir of
\* its directory; the file is open only inside the with-block; when the
\* process has exited, on any path, the file is not open and every open has
\* been followed by a close; the summary is printed only after the close.
C9_FileLifecycle ==
  /\ Count("open") <= 1
  /\ Before("mkdir", "open")
  /\ handle = "open" => pc \in WriteStages \cup {"write_metadata", "close"}
  /\ pc = "exited" => handle # "open" /\ Count("close") = Count("open")
  /\ Before("close", "summary")
  /\ Before("open", "close")

\* a write into the opened file has failed and the process has exited
C9_Reached == pc = "exited" /\ error = "OSError" /\ Done("open")

\* C10: the four arrays are computed before the file is opened, so that, as
\* long as the file has not been opened, the output path holds what it held
\* before the run; a run ended by an exception of the numeric computation
\* (a negative num_samples, the zenith angle at which the air-mass power
\* divides by zero) has not opened the file, has left it exactly as it was
\* and exits non-zero, having touched the file system only by the mkdir.
C10_ComputeBeforeOpen ==
  /\ Before("linspace", "open") /\ Before("solar", "open")
  /\ Before("sky", "open") /\ Before("transmittance", "open")
  /\ ~Done("open") => file = file0
  /\ ComputationError =>
       /\ pc = "exited" /\ exit_code # 0
       /\ ~Done("open") /\ file = file0 /\ handle = "none"
       /\ Done("mkdir") /\ dir_exists

\* a run over an existing file has died of the air-mass division by zero
C10_Reached ==
  pc = "exited" /\ error = "ZeroDivisionError" /\ file0 = Old /\ num_samples > 0

----------------------------------------------------------------------------
(* Properties of the grid and of the spectra *)

Abs(n) == IF n < 0 THEN -n ELSE n

\* the float32 x lies within half a float32 spacing of n ticks
Nearest(x, n) ==
  LET s == x.e + TickBits
  IN  IF s >= 0 THEN 2 * Abs(x.m * 2^s - n) <= 2^s
      ELSE /\ BitLen(n) - s <= MantBits + 1
           /\ 2 * Abs(x.m - n * 2^(-s)) <= 1

\* n ticks is a float32 value: its binary expansion spans at most 24 bits
IsFloat32(n) == BitLen(n) <= MantBits \/ n % 2^(BitLen(n) - MantBits) = 0

NonDecreasing(ws) ==
  \A i \in 1..Len(ws) : \A j \in 1..Len(ws) : i < j => F32Leq(ws[i], ws[j])
StrictlyIncreasing(ws) ==
  \A i \in 1..Len(ws) : \A j \in 1..Len(ws) : i < j => F32Less(ws[i], ws[j])

\* the step (lambda_max - lambda_min) / (num_samples - 1) is at least two
\* float32 spacings at lambda_max
StepWide ==
  LET b == BitLen(lambda_max) - MantBits
  IN  IF b >= 0
      THEN lambda_max - lambda_min >= 2 * (num_samples - 1) * 2^b
      ELSE (lambda_max - lambda_min) * 2^(-b) >= 2 * (num_samples - 1)

\* C1 (as stated): for lambda_min < lambda_max and num_samples >= 1 the grid
\* has num_samples elements, is strictly increasing, its first element
\* equals lambda_min and its last element equals lambda_max.
C1_GridAsStated ==
  Done("linspace") /\ ValidBounds /\ num_samples >= 1 =>
    /\ Len(wavelengths) = num_samples
    /\ StrictlyIncreasing(wavelengths)
    /\ F32IsTicks(wavelengths[1], lambda_min)
    /\ F32IsTicks(wavelengths[num_samples], lambda_max)

\* C1 (amended): for 0 < lambda_min < lambda_max and num_samples >= 1 the
\* grid has num_samples float32 elements and never decreases; its first
\* element is the float32 nearest lambda_min (lambda_min itself when that is
\* a float32); when num_samples >= 2 its last element is the float32 nearest
\* lambda_max (lambda_max itself when that is a float32); and it is strictly
\* increasing when the step is at least two float32 spacings at lambda_max.
C1_Grid ==
  Done("linspace") /\ ValidBounds /\ num_samples >= 1 =>
    /\ Len(wavelengths) = num_samples
    /\ NonDecreasing(wavelengths)
    /\ Nearest(wavelengths[1], lambda_min)
    /\ IsFloat32(lambda_min) => F32IsTicks(wavelengths[1], lambda_min)
    /\ num_samples >= 2 =>
         /\ Nearest(wavelengths[num_samples], lambda_max)
         /\ IsFloat32(lambda_max) =>
              F32IsTicks(wavelengths[num_samples], lambda_max)
    /\ StepWide => StrictlyIncreasing(wavelengths)

\* a grid of MaxSamples wavelengths from a lambda_min that is no float32
C1_Reached ==
  /\ Done("linspace") /\ ValidBounds /\ num_samples = MaxSamples
  /\ ~IsFloat32(lambda_min) /\ StepWide

\* the value is a positive finite number
PositiveFinite(v) == ~v.nan /\ v.lo > ZeroE /\ v.hi < InfE
\* the value is not known to be zero
MayBeNonZero(v) == v.nan \/ v.hi # ZeroE

\* the value lies in [0, 1] and is not NaN
InUnitInterval(v) == ~v.nan /\ v.lo >= ZeroE /\ v.hi <= 0

\* C3: for positive wavelengths and a zenith angle in [0, 90) degrees the
\* air mass is a positive finite number, so that the exponent
\* -tau_0 * air_mass is never positive, and every transmittance sample
\* lies in [0, 1]; in particular the default run
\* (380-2500 nm, 212 samples, zenith 30 degrees) ends with 212 stored
\* transmittance values, all in [0, 1].
C3_Transmittance ==
  /\ Done("transmittance") /\ 0 <= zenith_angle
       /\ zenith_angle < 90 * ZenithUnit =>
         /\ PositiveFinite(air_mass(zenith_angle))
         /\ Len(transmittance) = Len(wavelengths)
         /\ \A i \in 1..Len(transmittance) : InUnitInterval(transmittance[i])
  /\ exit_code = 0 /\ args = DefaultArgs =>
       /\ Len(Stored(file, "transmittance")) = DefaultNumSamples
       /\ \A i \in 1..DefaultNumSamples :
            InUnitInterval(Stored(file, "transmittance")[i])

\* the default run has exited with status 0
C3_Reached == exit_code = 0 /\ args = DefaultArgs

\* the run was asked for one sample over valid bounds at a zenith angle in
\* [0, 90) degrees and has exited without an I/O error
SingleSampleRun ==
  /\ pc = "exited" /\ error # "OSError"
  /\ num_samples = 1 /\ ValidBounds
  /\ 0 <= zenith_angle /\ zenith_angle < 90 * ZenithUnit

\* C5 (as stated): a run with num_samples = 1 and lambda_min < lambda_max
\* completes successfully and writes four arrays of length 1 whose single
\* wavelength equals lambda_min exactly.
C5_SingleSampleAsStated ==
  SingleSampleRun =>
    /\ exit_code = 0
    /\ HoldsLut(file, 1)
    /\ F32IsTicks(Stored(file, "wavelengths")[1], lambda_min)

\* C5 (amended): a run with num_samples = 1, 0 < lambda_min < lambda_max and
\* a zenith angle in [0, 90) degrees that meets no I/O error exits with
\* status 0 and writes four arrays of length 1; the single wavelength is the
\* float32 nearest lambda_min, and lambda_min exactly when lambda_min is a
\* float32.
C5_SingleSample ==
  SingleSampleRun =>
    /\ exit_code = 0
    /\ HoldsLut(file, 1)
    /\ Nearest(Stored(file, "wavelengths")[1], lambda_min)
    /\ IsFloat32(lambda_min) =>
         F32IsTicks(Stored(file, "wavelengths")[1], lambda_min)

\* a one-sample run from a lambda_min that is no float32 has succeeded
C5_Reached == SingleSampleRun /\ exit_code = 0 /\ ~IsFloat32(lambda_min)

\* the float32 values 1.0 and 0.0625
One == [m |-> MantMin, e |-> -(MantBits - 1)]
Sixteenth == F32Scale(One, -4)

\* the float32 values x < y are at least 32 float32 spacings of x apart
Apart(x, y) ==
  IF y.e = x.e THEN y.m - x.m >= 32
  ELSE IF y.e = x.e + 1 THEN 2 * y.m - x.m >= 32
  ELSE TRUE

\* what C6 says of the samples at 550 nm and at 1100 nm: the factor is 1
\* and exactly 1/16, the sky radiance at 1100 nm is base_radiance / 16 and
\* the optical depth there is tau_0_ref / 16
AtReference(i) ==
  LET w == wavelengths[i]
  IN  /\ w = F32(lambda_ref * TicksPerNm) =>
           /\ rayleigh_factor(w) = One
           /\ sky_radiance[i] = base_radiance
      /\ w = F32(2 * lambda_ref * TicksPerNm) =>
           /\ rayleigh_factor(w) = Sixteenth
           /\ sky_radiance[i] = F32Scale(base_radiance, -4)
           /\ tau_0(w) = F32Scale(tau_0_ref, -4)

\* the grid's pairs of a wavelength and its Rayleigh factor
Factors ==
  {[w |-> wavelengths[i], f |-> rayleigh_factor(wavelengths[i])] :
     i \in 1..Len(wavelengths)}

====
